---- MODULE Spec2Model ----
(***************************************************************************)
(* Listener lifecycle and request client of the API tester CLI.            *)
(*                                                                         *)
(* The process runs one menu loop (cli/menu.js mainMenu) and any number of *)
(* SIGINT handler invocations (app.js).  Both call into the listener       *)
(* controller (cli/handlers/server.js), which keeps the module variable    *)
(* `server` and delegates to startServer/stopServer (server.js), which     *)
(* wrap app.listen and server.close of the HTTP library.                   *)
(*                                                                         *)
(* JavaScript runs every callback to completion and drains the microtask   *)
(* queue before the next event is taken, so one action of the model is one *)
(* event (a menu selection, a signal, a 'listening'/'error'/'close' event  *)
(* of a listener) together with the promise continuations it resumes.      *)
(*                                                                         *)
(* The request client (api.js) is an axios instance with a base URL, a     *)
(* timeout and two interceptors, behind the helpers get/post/put/patch/    *)
(* del/request, and rawRequest on plain axios.  makeRequest calls it from  *)
(* the menu (Spec); ClientSpec has a caller that uses every export.        *)
(***************************************************************************)
EXTENDS Integers, FiniteSets, Sequences, TLC

\* Bounds of the model
MaxListeners == 3      \* listener instances created in one run
MaxSigint == 2         \* SIGINT deliveries in one run
MaxConns == 1          \* connections in flight on one listener

NoServer == 0          \* `let server = null`
Handles == 1..MaxListeners

\* Life of one http.Server created by app.listen
\*   none      not created yet
\*   binding   listen() requested, no 'listening' or 'error' event yet
\*   listening bound and accepting connections
\*   closing   close() requested, port still held until 'close' is emitted
\*   closed    'close' emitted, port released
\*   failed    the bind failed ('error' event), never listened
ListenerStates == {"none", "binding", "listening", "closing", "closed", "failed"}

VARIABLES
    server,      \* handlers/server.js: the held handle, NoServer for null
    lstate,      \* state of every listener instance created so far
    nListeners,  \* number of app.listen calls made (startServer calls)
    closeCalls,  \* per handle: number of server.close calls (stopServer calls)
    extPort,     \* TRUE when another process holds the port
    express5,    \* TRUE when app.listen hands a bind error to its callback
    pc,          \* position of the menu loop
    action,      \* the last selection made in mainMenu
    sigCount,    \* SIGINT deliveries so far
    sigWait,     \* SIGINT handlers suspended in `await cleanup()`
    proc,        \* "running", "exited" (process.exit) or "crashed" (uncaught error)
    exitBy,      \* first caller suspended in `await cleanup()`: it reaches process.exit
    lastLog,     \* last line written to the console
    cleanupDone, \* a cleanup() that found the server running has returned
    conns,       \* per listener: connections accepted and not yet finished
    token,       \* process.env.API_KEY, "" when unset or empty
    apiDefaults, \* api.defaults: what axios.create configured on the instance
    call,        \* the client call in flight: function and arguments
    wire,        \* the request handed to the transport for that call
    outcome,     \* how the last completed client call ended
    probe        \* a direct caller's record of its first completed call

\* State of the request client (api.js) and of its caller
clientVars == <<token, apiDefaults, call, wire, outcome, probe>>

vars == <<server, lstate, nListeners, closeCalls, extPort, express5, pc, action,
          sigCount, sigWait, proc, exitBy, lastLog, cleanupDone, conns,
          clientVars>>

\* A listener that holds or is acquiring the port
Live(h) == lstate[h] \in {"binding", "listening", "closing"}

\* A listener that holds the port
Bound(h) == lstate[h] \in {"listening", "closing"}

\* The port can be bound by listener h
PortFree(h) == ~extPort /\ \A g \in Handles \ {h} : ~Bound(g)

\* Request client (api.js)

ApiTimeout == 30000    \* axios.create({ timeout: 30000 })
RawTimeout == 30000    \* rawRequest: axios({ url, timeout: 30000, ...options })
Unset == -1            \* an option the caller did not give
NoHeader == "none"     \* a header that is absent
BaseURL == "https://api.example"      \* process.env.API_BASE_URL
Endpoints == {"/users", "https://other.example/ping"}
IsAbsolute(u) == u = "https://other.example/ping"

\* The exported request functions that go through the configured instance
ApiFns == {"get", "post", "put", "patch", "del", "request"}
\* The functions that send a body
BodyFns == {"post", "put", "patch"}

NoCall == [fn |-> "none"]
NoWire == [url |-> "none"]
NoOutcome == [kind |-> "none"]
NoProbe == [call |-> NoCall]

\* The calls a caller of api.js can make.  get/post/put/patch/del take an
\* endpoint and, for the body functions, data; request(config) and
\* rawRequest(url, options) also take caller headers and a caller timeout.
Calls ==
    [fn : {"get", "del"}, url : Endpoints, data : {"none"},
     auth : {NoHeader}, tmo : {Unset}]
    \cup [fn : BodyFns, url : Endpoints, data : {"{}", "obj"},
          auth : {NoHeader}, tmo : {Unset}]
    \cup [fn : {"request", "rawRequest"}, url : Endpoints, data : {"none"},
          auth : {NoHeader, "Basic abc"}, tmo : {Unset, 0}]

\* What the transport can answer: a response with a status, or a failure
\* to connect.  A transport that stays silent answers nothing.
Answers ==
    {[kind |-> "response", status |-> 200],
     [kind |-> "response", status |-> 404],
     [kind |-> "network", status |-> 0]}
TimedOut == [kind |-> "timeout", status |-> 0]

\* `Bearer ${process.env.API_KEY}`
Bearer(t) == "Bearer " \o t

\* The request interceptor with its `if (process.env.API_KEY)` dropped
WireRequest_AlwaysBearer(c) ==
    IF c.fn = "rawRequest"
    THEN [url |-> c.url,
          auth |-> c.auth,
          timeout |-> IF c.tmo # Unset THEN c.tmo ELSE RawTimeout,
          data |-> c.data]
    ELSE [url |-> IF IsAbsolute(c.url) THEN c.url ELSE BaseURL \o c.url,
          auth |-> Bearer(token),
          timeout |-> IF c.tmo # Unset THEN c.tmo ELSE apiDefaults.timeout,
          data |-> c.data]

\* An instance created without `timeout: 30000`: axios' default of 0 applies
WireRequest_NoTimeout(c) ==
    IF c.fn = "rawRequest"
    THEN [url |-> c.url,
          auth |-> c.auth,
          timeout |-> IF c.tmo # Unset THEN c.tmo ELSE RawTimeout,
          data |-> c.data]
    ELSE [url |-> IF IsAbsolute(c.url) THEN c.url ELSE BaseURL \o c.url,
          auth |-> IF token # "" THEN Bearer(token)
                   ELSE IF c.auth # NoHeader THEN c.auth ELSE apiDefaults.auth,
          timeout |-> IF c.tmo # Unset THEN c.tmo ELSE 0,
          data |-> c.data]

\* rawRequest sent through the configured instance instead of plain axios
WireRequest_RawViaApi(c) ==
    [url |-> IF IsAbsolute(c.url) THEN c.url ELSE BaseURL \o c.url,
     auth |-> IF token # "" THEN Bearer(token)
              ELSE IF c.auth # NoHeader THEN c.auth ELSE apiDefaults.auth,
     timeout |-> IF c.tmo # Unset THEN c.tmo ELSE apiDefaults.timeout,
     data |-> c.data]

\* The request the transport receives for call c.  Through the instance:
\* the call's config is merged over the instance defaults, the base URL is
\* put before a relative url and the request interceptor sets the
\* Authorization header when API_KEY is non-empty.  rawRequest: plain axios
\* with the url, the 30000 ms timeout and the caller's options spread over it.
WireRequest(c) ==
    IF c.fn = "rawRequest"
    THEN [url |-> c.url,
          auth |-> c.auth,
          timeout |-> IF c.tmo # Unset THEN c.tmo ELSE RawTimeout,
          data |-> c.data]
    ELSE [url |-> IF IsAbsolute(c.url) THEN c.url ELSE BaseURL \o c.url,
          auth |-> IF token # "" THEN Bearer(token)
                   ELSE IF c.auth # NoHeader THEN c.auth ELSE apiDefaults.auth,
          timeout |-> IF c.tmo # Unset THEN c.tmo ELSE apiDefaults.timeout,
          data |-> c.data]

\* The answer is a success: a response with a 2xx status
IsSuccess(a) == a.kind = "response" /\ a.status \in 200..299

\* An error interceptor that logs and does not rethrow: the call resolves
OutcomeOf_Swallow(c, a) ==
    IF IsSuccess(a)
    THEN [kind |-> "returned", err |-> "none", status |-> a.status, logged |-> FALSE]
    ELSE [kind |-> IF c.fn \in ApiFns THEN "returned" ELSE "thrown",
          err |-> IF a.kind = "response" THEN "http" ELSE a.kind,
          status |-> a.status,
          logged |-> c.fn \in ApiFns]

\* How call c ends on answer a.  A success returns response.data.  Any
\* other answer is an error: through the instance the response interceptor
\* writes it to console.error and rethrows it; rawRequest has no
\* interceptor, the error is thrown to the caller unlogged.
OutcomeOf(c, a) ==
    IF IsSuccess(a)
    THEN [kind |-> "returned", err |-> "none", status |-> a.status, logged |-> FALSE]
    ELSE [kind |-> "thrown",
          err |-> IF a.kind = "response" THEN "http" ELSE a.kind,
          status |-> a.status,
          logged |-> c.fn \in ApiFns]

\* A request config that is written into the instance defaults
DefaultsAfter_Leak(c) ==
    [apiDefaults EXCEPT !.auth = IF c.auth # NoHeader THEN c.auth ELSE @]

\* The instance defaults after call c was sent: the interceptor writes to
\* the merged per-request config, the instance is left as it was
DefaultsAfter(c) == apiDefaults

\* makeRequest without its try/catch: a thrown call rejects mainMenu
ProcAfterCall_NoCatch(o) == IF o.kind = "thrown" THEN "crashed" ELSE proc

\* The process after makeRequest got outcome o: the call is inside
\* try/catch, a thrown error is logged as 'Request failed:' and dropped
ProcAfterCall(o) == proc

TypeOK ==
    /\ server \in {NoServer} \cup Handles
    /\ lstate \in [Handles -> ListenerStates]
    /\ nListeners \in 0..MaxListeners
    /\ closeCalls \in [Handles -> Nat]
    /\ extPort \in BOOLEAN
    /\ express5 \in BOOLEAN
    /\ pc \in {"menu", "start_wait", "stop_wait", "exit_wait", "req_wait"}
    /\ action \in {"none", "request", "startServer", "stopServer", "exit"}
    /\ sigCount \in 0..MaxSigint
    /\ sigWait \in 0..MaxSigint
    /\ proc \in {"running", "exited", "crashed"}
    /\ exitBy \in {"none", "menu", "sigint"}
    /\ lastLog \in STRING
    /\ cleanupDone \in BOOLEAN
    /\ conns \in [Handles -> 0..MaxConns]
    /\ token \in {"", "k1"}
    /\ call \in Calls \cup {NoCall}
    /\ call # NoCall => wire = WireRequest(call)
    /\ pc = "req_wait" => call # NoCall

\* Initial state of the request client
InitClient ==
    /\ token \in {"", "k1"}
    /\ apiDefaults = [auth |-> NoHeader, timeout |-> ApiTimeout]
    /\ call = NoCall
    /\ wire = NoWire
    /\ outcome = NoOutcome
    /\ probe = NoProbe

Init ==
    /\ server = NoServer
    /\ lstate = [h \in Handles |-> "none"]
    /\ nListeners = 0
    /\ closeCalls = [h \in Handles |-> 0]
    /\ extPort \in BOOLEAN
    /\ express5 \in BOOLEAN
    /\ pc = "menu"
    /\ action = "none"
    /\ sigCount = 0
    /\ sigWait = 0
    /\ proc = "running"
    /\ exitBy = "none"
    /\ lastLog = "=== API Tester CLI ==="
    /\ cleanupDone = FALSE
    /\ conns = [h \in Handles |-> 0]
    /\ InitClient

\* isServerRunning()
isServerRunning == server # NoServer

\* server.close(cb) on handle h: a listening server stops accepting and
\* starts closing; on a closing server the callback joins the pending
\* 'close'; on a server that is not open the callback runs at once.
CloseRequested(h) ==
    [lstate EXCEPT ![h] = IF @ = "listening" THEN "closing" ELSE @]

\* stopServer(h) stays pending until the 'close' event of h
ClosePending(h) == lstate[h] \in {"listening", "closing"}

\* handleStartServer with the `if (server)` check dropped: every call binds
HandleStartServer_NoGuard ==
    /\ proc = "running"
    /\ pc = "menu"
    /\ action' = "startServer"
    /\ nListeners < MaxListeners
    /\ nListeners' = nListeners + 1
    /\ lstate' = [lstate EXCEPT ![nListeners + 1] = "binding"]
    /\ pc' = "start_wait"
    /\ UNCHANGED <<server, closeCalls, lastLog>>
    /\ UNCHANGED <<extPort, express5, sigCount, sigWait, proc, exitBy, cleanupDone>>
    /\ UNCHANGED <<conns, clientVars>>

\* handleStartServer with the `return` after the message dropped: the call
\* reports 'already running' and goes on to startServer()
HandleStartServer_NoReturn ==
    /\ proc = "running"
    /\ pc = "menu"
    /\ action' = "startServer"
    /\ nListeners < MaxListeners
    /\ lastLog' = IF server # NoServer THEN "Server is already running" ELSE lastLog
    /\ nListeners' = nListeners + 1
    /\ lstate' = [lstate EXCEPT ![nListeners + 1] = "binding"]
    /\ pc' = "start_wait"
    /\ UNCHANGED <<server, closeCalls>>
    /\ UNCHANGED <<extPort, express5, sigCount, sigWait, proc, exitBy, cleanupDone>>
    /\ UNCHANGED <<conns, clientVars>>

\* Menu selection 'startServer': handleStartServer() up to its await;
\* startServer() makes app.listen create the next listener instance
HandleStartServer ==
    /\ proc = "running"
    /\ pc = "menu"
    /\ action' = "startServer"
    /\ IF server # NoServer
       THEN /\ lastLog' = "Server is already running"
            /\ UNCHANGED <<server, lstate, nListeners, closeCalls, pc>>
       ELSE /\ nListeners < MaxListeners
            /\ nListeners' = nListeners + 1
            /\ lstate' = [lstate EXCEPT ![nListeners + 1] = "binding"]
            /\ pc' = "start_wait"
            /\ UNCHANGED <<server, closeCalls, lastLog>>
    /\ UNCHANGED <<extPort, express5, sigCount, sigWait, proc, exitBy, cleanupDone>>
    /\ UNCHANGED <<conns, clientVars>>

\* The 'listening' event of the listener being started: the callback logs,
\* resolves the promise and handleStartServer stores the handle.
Listening ==
    /\ proc = "running"
    /\ pc = "start_wait"
    /\ lstate[nListeners] = "binding"
    /\ PortFree(nListeners)
    /\ lstate' = [lstate EXCEPT ![nListeners] = "listening"]
    /\ lastLog' = "Server listening on port"
    /\ server' = nListeners
    /\ pc' = "menu"
    /\ UNCHANGED <<nListeners, closeCalls, extPort, express5, action, sigCount,
                   sigWait, proc, exitBy, cleanupDone>>
    /\ UNCHANGED <<conns, clientVars>>

\* The bind of the listener being started fails (port in use).  startServer
\* registers no 'error' listener and its promise has no reject path.  Either
\* the library hands the error to the listen callback, which ignores its
\* argument, logs and resolves with the unbound server, or the 'error'
\* event has no listener and is thrown as an uncaught exception.
BindError ==
    /\ proc = "running"
    /\ pc = "start_wait"
    /\ lstate[nListeners] = "binding"
    /\ ~PortFree(nListeners)
    /\ lstate' = [lstate EXCEPT ![nListeners] = "failed"]
    /\ IF express5
       THEN /\ lastLog' = "Server listening on port"
            /\ server' = nListeners
            /\ pc' = "menu"
            /\ proc' = proc
       ELSE /\ proc' = "crashed"
            /\ UNCHANGED <<lastLog, server, pc>>
    /\ UNCHANGED <<nListeners, closeCalls, extPort, express5, action, sigCount,
                   sigWait, exitBy, cleanupDone>>
    /\ UNCHANGED <<conns, clientVars>>

\* stopServer(h) called once more: server.close(cb) is invoked on h
StopServerCalled(h) == [closeCalls EXCEPT ![h] = @ + 1]

\* handleStopServer with the `if (!server)` check dropped: stopServer(null)
\* throws on null.close and the rejection reaches no handler
HandleStopServer_NoGuard ==
    /\ proc = "running"
    /\ pc = "menu"
    /\ action' = "stopServer"
    /\ IF server = NoServer
       THEN /\ proc' = "crashed"
            /\ UNCHANGED <<server, lstate, closeCalls, pc, lastLog>>
       ELSE /\ closeCalls' = StopServerCalled(server)
            /\ lstate' = CloseRequested(server)
            /\ proc' = proc
            /\ IF ClosePending(server)
               THEN /\ pc' = "stop_wait"
                    /\ UNCHANGED <<server, lastLog>>
               ELSE /\ lastLog' = "Server stopped"
                    /\ server' = NoServer
                    /\ pc' = "menu"
    /\ UNCHANGED <<nListeners, extPort, express5, sigCount, sigWait,
                   exitBy, cleanupDone>>
    /\ UNCHANGED <<conns, clientVars>>

\* handleStopServer with the `await` dropped: the close is requested and the
\* handler clears `server` and returns without waiting for 'close'
HandleStopServer_NoAwait ==
    /\ proc = "running"
    /\ pc = "menu"
    /\ action' = "stopServer"
    /\ IF server = NoServer
       THEN /\ lastLog' = "Server is not running"
            /\ UNCHANGED <<server, lstate, closeCalls, pc>>
       ELSE /\ closeCalls' = StopServerCalled(server)
            /\ lstate' = CloseRequested(server)
            /\ server' = NoServer
            /\ pc' = "menu"
            /\ lastLog' = IF ClosePending(server) THEN lastLog ELSE "Server stopped"
    /\ UNCHANGED <<nListeners, extPort, express5, sigCount, sigWait, proc,
                   exitBy, cleanupDone>>
    /\ UNCHANGED <<conns, clientVars>>

\* handleStopServer with `server = null` moved before the await
HandleStopServer_ClearFirst ==
    /\ proc = "running"
    /\ pc = "menu"
    /\ action' = "stopServer"
    /\ IF server = NoServer
       THEN /\ lastLog' = "Server is not running"
            /\ UNCHANGED <<server, lstate, closeCalls, pc>>
       ELSE /\ closeCalls' = StopServerCalled(server)
            /\ lstate' = CloseRequested(server)
            /\ server' = NoServer
            /\ IF ClosePending(server)
               THEN /\ pc' = "stop_wait"
                    /\ UNCHANGED lastLog
               ELSE /\ lastLog' = "Server stopped"
                    /\ pc' = "menu"
    /\ UNCHANGED <<nListeners, extPort, express5, sigCount, sigWait, proc,
                   exitBy, cleanupDone>>
    /\ UNCHANGED <<conns, clientVars>>

\* Menu selection 'stopServer': handleStopServer()
HandleStopServer ==
    /\ proc = "running"
    /\ pc = "menu"
    /\ action' = "stopServer"
    /\ IF server = NoServer
       THEN /\ lastLog' = "Server is not running"
            /\ UNCHANGED <<server, lstate, closeCalls, pc>>
       ELSE /\ closeCalls' = StopServerCalled(server)
            /\ lstate' = CloseRequested(server)
            /\ IF ClosePending(server)
               THEN /\ pc' = "stop_wait"
                    /\ UNCHANGED <<server, lastLog>>
               ELSE /\ lastLog' = "Server stopped"
                    /\ server' = NoServer
                    /\ pc' = "menu"
    /\ UNCHANGED <<nListeners, extPort, express5, sigCount, sigWait, proc,
                   exitBy, cleanupDone>>
    /\ UNCHANGED <<conns, clientVars>>

\* Menu selection 'exit': await cleanup(); console.log('Goodbye!'); process.exit(0)
MenuExit ==
    /\ proc = "running"
    /\ pc = "menu"
    /\ action' = "exit"
    /\ IF server = NoServer
       THEN /\ lastLog' = "Goodbye!"
            /\ proc' = "exited"
            /\ exitBy' = "menu"
            /\ UNCHANGED <<lstate, closeCalls, pc, cleanupDone>>
       ELSE /\ closeCalls' = StopServerCalled(server)
            /\ lstate' = CloseRequested(server)
            /\ IF ClosePending(server)
               THEN /\ pc' = "exit_wait"
                    /\ exitBy' = IF exitBy = "none" THEN "menu" ELSE exitBy
                    /\ UNCHANGED <<lastLog, proc, cleanupDone>>
               ELSE /\ lastLog' = "Goodbye!"
                    /\ cleanupDone' = TRUE
                    /\ proc' = "exited"
                    /\ exitBy' = "menu"
                    /\ pc' = pc
    /\ UNCHANGED <<server, nListeners, extPort, express5, sigCount, sigWait>>
    /\ UNCHANGED <<conns, clientVars>>

\* A SIGINT is delivered: await cleanup(); process.exit(0)
Sigint ==
    /\ proc = "running"
    /\ sigCount < MaxSigint
    /\ sigCount' = sigCount + 1
    /\ IF server = NoServer
       THEN /\ proc' = "exited"
            /\ exitBy' = "sigint"
            /\ UNCHANGED <<lstate, closeCalls, sigWait, lastLog, cleanupDone>>
       ELSE /\ closeCalls' = StopServerCalled(server)
            /\ lstate' = CloseRequested(server)
            /\ IF ClosePending(server)
               THEN /\ sigWait' = sigWait + 1
                    /\ exitBy' = IF exitBy = "none" THEN "sigint" ELSE exitBy
                    /\ UNCHANGED <<lastLog, proc, cleanupDone>>
               ELSE /\ lastLog' = "Server stopped"
                    /\ cleanupDone' = TRUE
                    /\ proc' = "exited"
                    /\ exitBy' = "sigint"
                    /\ sigWait' = sigWait
    /\ UNCHANGED <<server, nListeners, extPort, express5, pc, action>>
    /\ UNCHANGED <<conns, clientVars>>

\* The 'close' event of a closing listener, emitted once its connections
\* have all finished: every pending stopServer promise
\* resolves, in the order the callbacks were registered.  A suspended
\* handleStopServer clears `server` and returns to the menu; a suspended
\* cleanup returns to its caller, which exits the process.
Closed ==
    /\ proc = "running"
    /\ \E h \in Handles :
          /\ lstate[h] = "closing"
          /\ conns[h] = 0
          /\ lstate' = [lstate EXCEPT ![h] = "closed"]
    /\ server' = IF pc = "stop_wait" THEN NoServer ELSE server
    /\ pc' = IF pc = "stop_wait" THEN "menu" ELSE pc
    /\ cleanupDone' = (cleanupDone \/ exitBy # "none")
    /\ proc' = IF exitBy # "none" THEN "exited" ELSE proc
    /\ lastLog' = IF exitBy = "menu" THEN "Goodbye!" ELSE "Server stopped"
    /\ sigWait' = 0
    /\ UNCHANGED <<nListeners, closeCalls, extPort, express5, action, sigCount,
                   exitBy>>
    /\ UNCHANGED <<conns, clientVars>>

\* A client function is entered with call c: the request is built and
\* handed to the transport, the caller is suspended on the promise
Send(c) ==
    /\ call = NoCall
    /\ call' = c
    /\ wire' = WireRequest(c)
    /\ apiDefaults' = DefaultsAfter(c)
    /\ UNCHANGED <<token, outcome, probe>>

\* Menu selection 'request': makeRequest() prompts for the method, the
\* endpoint and, for the body methods, the body (invalid JSON becomes {}),
\* then calls the api function of that method.
MakeRequest ==
    /\ proc = "running"
    /\ pc = "menu"
    /\ action' = "request"
    /\ \E c \in Calls :
          /\ c.fn \in {"get", "post", "put", "patch", "del"}
          /\ Send(c)
    /\ pc' = "req_wait"
    /\ lastLog' = "Making request"
    /\ UNCHANGED <<server, lstate, nListeners, closeCalls, extPort, express5,
                   sigCount, sigWait, proc, exitBy, cleanupDone, conns>>

\* A direct caller of api.js calls one of its exported functions
ClientCall ==
    /\ proc = "running"
    /\ pc = "menu"
    /\ \E c \in Calls : Send(c)
    /\ UNCHANGED <<server, lstate, nListeners, closeCalls, extPort, express5, pc,
                   action, sigCount, sigWait, proc, exitBy, lastLog, cleanupDone,
                   conns>>

\* The caller's record after a call ended as o: the first completed call is
\* kept, and a later identical call with the same answer is noted
ProbeAfter(o) ==
    IF probe = NoProbe
    THEN [call |-> call, wire |-> wire, outcome |-> o, again |-> FALSE]
    ELSE IF probe.call = call /\ probe.outcome.err = o.err
                              /\ probe.outcome.status = o.status
         THEN [probe EXCEPT !.again = TRUE]
         ELSE probe

\* The call in flight ends on answer a.  In makeRequest the result or the
\* caught error is printed, then an empty line, and the menu comes back.
Complete(a) ==
    /\ proc = "running"
    /\ call # NoCall
    /\ outcome' = OutcomeOf(call, a)
    /\ call' = NoCall
    /\ wire' = NoWire
    /\ IF pc = "req_wait"
       THEN /\ proc' = ProcAfterCall(OutcomeOf(call, a))
            /\ pc' = "menu"
            /\ lastLog' = ""
            /\ probe' = probe
       ELSE /\ probe' = ProbeAfter(OutcomeOf(call, a))
            /\ lastLog' = IF OutcomeOf(call, a).logged THEN "API Error:" ELSE lastLog
            /\ UNCHANGED <<pc, proc>>
    /\ UNCHANGED <<server, lstate, nListeners, closeCalls, extPort, express5,
                   action, sigCount, sigWait, exitBy, cleanupDone, conns,
                   token, apiDefaults>>

\* The transport answers the request in flight
Respond == \E a \in Answers : Complete(a)

\* The transport stays silent and the timeout of the request expires;
\* a timeout of 0 never expires
TimeoutFires ==
    /\ call # NoCall
    /\ wire.timeout > 0
    /\ Complete(TimedOut)

\* A peer connects to a listening server
ConnOpen ==
    /\ proc = "running"
    /\ \E h \in Handles :
          /\ lstate[h] = "listening"
          /\ conns[h] < MaxConns
          /\ conns' = [conns EXCEPT ![h] = @ + 1]
    /\ UNCHANGED <<server, lstate, nListeners, closeCalls, extPort, express5, pc,
                   action, sigCount, sigWait, proc, exitBy, lastLog, cleanupDone,
                   clientVars>>

\* A connection in flight finishes; when that happens is up to the peer
ConnEnd ==
    /\ proc = "running"
    /\ \E h \in Handles :
          /\ conns[h] > 0
          /\ conns' = [conns EXCEPT ![h] = @ - 1]
    /\ UNCHANGED <<server, lstate, nListeners, closeCalls, extPort, express5, pc,
                   action, sigCount, sigWait, proc, exitBy, lastLog, cleanupDone,
                   clientVars>>

\* Another process takes or releases the port
PortChange ==
    /\ proc = "running"
    /\ extPort \/ \A h \in Handles : ~Bound(h)
    /\ extPort' = ~extPort
    /\ UNCHANGED <<server, lstate, nListeners, closeCalls, express5, pc, action,
                   sigCount, sigWait, proc, exitBy, lastLog, cleanupDone>>
    /\ UNCHANGED <<conns, clientVars>>

Next ==
    \/ HandleStartServer
    \/ Listening
    \/ BindError
    \/ HandleStopServer
    \/ MenuExit
    \/ Sigint
    \/ Closed
    \/ PortChange
    \/ ConnOpen
    \/ ConnEnd
    \/ MakeRequest
    \/ Respond
    \/ TimeoutFires

Spec == Init /\ [][Next]_vars

\* api.js on its own, used by a direct caller
ClientNext ==
    \/ ClientCall
    \/ Respond
    \/ TimeoutFires

\* The listener plays no part here: its environment is fixed
ClientInit == Init /\ ~extPort /\ express5

ClientSpec == ClientInit /\ [][ClientNext]_vars

\* The timer of a request in flight fires when its time has passed; nothing
\* obliges the transport to answer.
ClientFairSpec ==
    /\ ClientInit /\ [][ClientNext]_vars
    /\ WF_vars(TimeoutFires)

\* The event loop delivers every event that is ready: the 'listening',
\* 'error' and 'close' events of a listener.  Nothing obliges a peer to
\* finish a connection, a user to make a selection or a signal to arrive.
FairSpec ==
    /\ Init /\ [][Next]_vars
    /\ WF_vars(Listening)
    /\ WF_vars(BindError)
    /\ WF_vars(Closed)
    /\ WF_vars(TimeoutFires)

----------------------------------------------------------------------------
\* Properties

LiveListeners == {h \in Handles : Live(h)}
BoundListeners == {h \in Handles : Bound(h)}
Released(h) == lstate[h] \in {"closed", "failed"}

\* C1: in every reachable state at most one listener instance is bound,
\* binding or still closing; the controller never has two live listeners.
C1_AtMostOneLive == Cardinality(LiveListeners) <= 1

\* A second listener is live, after the first was closed, while a SIGINT
\* cleanup is suspended on it
C1_Witness ==
    /\ nListeners = 2
    /\ lstate[1] = "closed"
    /\ lstate[2] = "closing"
    /\ sigWait > 0

\* C2 (as claimed): a SIGINT arriving while handleStopServer is suspended on
\* the close performs no second close: its cleanup observes Stopped.
C2_SigintDuringStopIsNoOp ==
    [][(pc = "stop_wait" /\ Sigint) => closeCalls' = closeCalls]_vars

\* C3 (as claimed): once a cleanup() that found the listener running has
\* returned, the controller is Stopped (isServerRunning() is false).
C3_CleanupStops == cleanupDone => ~isServerRunning

\* C4 (as claimed): at process exit no listener opened by the program is
\* still open: each one has been closed before process.exit.
C4_NoListenerAtExit == proc = "exited" => LiveListeners = {}

\* C5: a handleStartServer that directly follows a handleStartServer which
\* left a bound listener reports 'already running', makes no startServer
\* call, leaves the handle as it is, and exactly one listener is bound.
C5_SecondStartIsNoOp ==
    [][(HandleStartServer /\ action = "startServer" /\ server # NoServer
            /\ Bound(server))
        => /\ lastLog' = "Server is already running"
           /\ nListeners' = nListeners
           /\ server' = server
           /\ lstate' = lstate
           /\ pc' = "menu"
           /\ BoundListeners = {server}]_vars

\* The second start has reported 'already running' with the listener bound
C5_Witness ==
    /\ action = "startServer"
    /\ lastLog = "Server is already running"
    /\ nListeners = 1
    /\ server = 1
    /\ lstate[1] = "listening"

\* C6: handleStopServer in state Stopped reports 'not running', makes no
\* stopServer call and leaves the controller and every listener untouched.
C6_StopWhenStoppedIsNoOp ==
    [][(HandleStopServer /\ server = NoServer)
        => /\ lastLog' = "Server is not running"
           /\ closeCalls' = closeCalls
           /\ lstate' = lstate
           /\ server' = NoServer
           /\ pc' = "menu"
           /\ proc' = "running"]_vars

\* A stop was selected while Stopped and reported 'not running'
C6_Witness ==
    /\ action = "stopServer"
    /\ lastLog = "Server is not running"
    /\ server = NoServer
    /\ proc = "running"

\* C7: every start creates a fresh listener instance, and it is created
\* only when every earlier instance has released the port; a bind fails
\* only when another process holds the port, never because of an earlier
\* listener of this program.
C7_RestartAfterRelease ==
    [][/\ nListeners' # nListeners
          => /\ nListeners' = nListeners + 1
             /\ lstate[nListeners'] = "none"
             /\ lstate'[nListeners'] = "binding"
             /\ \A h \in 1..nListeners : Released(h)
       /\ BindError => extPort]_vars

\* start, stop, start: the first instance is closed, the second listens
C7_Witness ==
    /\ lstate[1] = "closed"
    /\ closeCalls[1] = 1
    /\ lstate[2] = "listening"
    /\ server = 2

\* C8 (as claimed): when the bind fails the process lives on,
\* handleStartServer returns to its caller without reporting a listening
\* server, and the controller stays Stopped.
C8_BindFailureLeavesStopped ==
    [][BindError
        => /\ proc' = "running"
           /\ pc' = "menu"
           /\ server' = NoServer
           /\ lastLog' # "Server listening on port"]_vars

\* C9 (as claimed): whenever the controller reports Running, the held
\* listener has reached the listening state.
C9_RunningImpliesListening ==
    isServerRunning => lstate[server] \notin {"none", "binding", "failed"}

\* C10: the controller goes from Running to Stopped only in a step after
\* which the close of the held listener has been requested and has
\* completed; it never reports Stopped while a listener is open or closing.
C10_StoppedOnlyAfterClose ==
    /\ [](~isServerRunning => BoundListeners = {})
    /\ [][(server # NoServer /\ server' = NoServer)
            => /\ closeCalls'[server] >= 1
               /\ lstate'[server] \in {"closed", "failed"}]_vars

\* A stop from Running has completed: close requested once, listener closed
C10_Witness ==
    /\ action = "stopServer"
    /\ server = NoServer
    /\ pc = "menu"
    /\ proc = "running"
    /\ nListeners = 1
    /\ lstate[1] = "closed"
    /\ closeCalls[1] = 1

\* C11 (as claimed): a caller suspended in `await cleanup()` always gets
\* past it, so the process exit that follows the cleanup is reached.
C11_CleanupCompletes ==
    (proc = "running" /\ (pc = "exit_wait" \/ sigWait > 0)) ~> (proc = "exited")

\* Every way a call in flight can end
AllAnswers == Answers \cup {TimedOut}

\* C12: a request sent through the configured instance carries
\* Authorization 'Bearer <token>' when the token is non-empty; with an empty
\* token the client adds no Authorization header, so a call that brought
\* none carries one if and only if the token is non-empty.
C12_BearerIffToken ==
    (call # NoCall /\ call.fn \in ApiFns)
    => /\ token # "" => wire.auth = Bearer(token)
       /\ token = "" => wire.auth = call.auth
       /\ call.auth = NoHeader => (wire.auth # NoHeader <=> token # "")

\* A post in flight with a token carries the bearer header
C12_Witness ==
    /\ call # NoCall
    /\ call.fn = "post"
    /\ token = "k1"
    /\ wire.auth = "Bearer k1"

\* C13: a call through the configured instance that gets a non-2xx
\* response is logged to the error channel and thrown to the caller with
\* the status; it never ends as a success.
C13_HttpErrorLoggedAndPropagated ==
    [][\A a \in AllAnswers :
          (Complete(a) /\ call.fn \in ApiFns /\ a.kind = "response"
              /\ a.status \notin 200..299)
          => /\ outcome'.kind = "thrown"
             /\ outcome'.logged
             /\ outcome'.status = a.status]_vars

\* A call through the instance ended on a 404: logged and thrown
C13_Witness ==
    /\ call = NoCall
    /\ outcome.kind = "thrown"
    /\ outcome.err = "http"
    /\ outcome.status = 404
    /\ outcome.logged

\* C14 (as claimed): every failed call ends as a failure outcome returned
\* to the caller, not thrown.
C14_FailuresReturned ==
    [][\A a \in AllAnswers :
          (Complete(a) /\ ~IsSuccess(a)) => outcome'.kind = "returned"]_vars

\* C14 (amended): a failed call never crashes the process: the client
\* throws the failure to its caller, and makeRequest catches it and
\* returns to the menu.
C14_FailuresThrownAndCaught ==
    [][\A a \in AllAnswers :
          (Complete(a) /\ ~IsSuccess(a))
          => /\ outcome'.kind = "thrown"
             /\ pc = "req_wait" => (proc' = "running" /\ pc' = "menu")]_vars

\* makeRequest is back at the menu after a call that was thrown
C14_Witness ==
    /\ action = "request"
    /\ pc = "menu"
    /\ call = NoCall
    /\ outcome.kind = "thrown"
    /\ proc = "running"

\* C15 (as claimed): with a transport that never answers, every client
\* call eventually ends.
C15_EveryCallEnds == (call # NoCall) ~> (call = NoCall)

\* C15 (amended): with a transport that never answers, every client call
\* whose caller did not pass a timeout of 0 eventually ends, and a call
\* ended by the timer ends as a thrown timeout failure.
C15_CallEndsUnlessTimeoutDisabled ==
    /\ (call # NoCall /\ call.tmo # 0) ~> (call = NoCall)
    /\ [][TimeoutFires => (outcome'.kind = "thrown" /\ outcome'.err = "timeout")]_vars

\* A call was ended by its timer
C15_Witness ==
    /\ call = NoCall
    /\ outcome.kind = "thrown"
    /\ outcome.err = "timeout"

\* C16: a call identical to an earlier call of the same caller sends the
\* identical request, ends identically when the transport answers
\* identically, and leaves the instance as it found it.
C16_SameCallSameResult ==
    [][(call # NoCall /\ call' = NoCall /\ probe # NoProbe /\ probe.call = call)
        => /\ wire = probe.wire
           /\ (outcome'.err = probe.outcome.err
                 /\ outcome'.status = probe.outcome.status)
              => outcome' = probe.outcome
           /\ apiDefaults' = apiDefaults]_vars

\* The first call was repeated later and got the same answer
C16_Witness ==
    /\ probe # NoProbe
    /\ probe.again
    /\ call = NoCall

\* C17 (as claimed): rawRequest prepends no base URL, injects no
\* Authorization header, and always runs with the timeout of the
\* configured client.
C17_RawAlwaysSameTimeout ==
    (call # NoCall /\ call.fn = "rawRequest")
    => /\ wire.url = call.url
       /\ wire.auth = call.auth
       /\ wire.timeout = apiDefaults.timeout

\* C17 (amended): rawRequest prepends no base URL, injects no
\* Authorization header and runs no interceptor; the timeout of the
\* configured client applies unless the options carry their own timeout.
C17_RawBypassesConfig ==
    /\ []((call # NoCall /\ call.fn = "rawRequest")
          => /\ wire.url = call.url
             /\ wire.auth = call.auth
             /\ wire.timeout = IF call.tmo = Unset THEN apiDefaults.timeout
                               ELSE call.tmo)
    /\ [][(call # NoCall /\ call.fn = "rawRequest" /\ call' = NoCall)
            => ~outcome'.logged]_vars

\* A rawRequest in flight with a relative url, a token configured and the
\* timeout switched off by its options
C17_Witness ==
    /\ call # NoCall
    /\ call.fn = "rawRequest"
    /\ call.url = "/users"
    /\ call.tmo = 0
    /\ token = "k1"
    /\ wire = [url |-> "/users", auth |-> call.auth, timeout |-> 0, data |-> "none"]

\* C18 (as claimed): a client call writes to the error channel exactly
\* when it fails.
C18_LoggedIffFailed ==
    [][\A a \in AllAnswers :
          Complete(a) => (outcome'.logged <=> ~IsSuccess(a))]_vars

\* C19 (as claimed): the menu loop ends only by Exit or SIGINT, and after
\* every other selection the handler returns and the menu is shown again.
C19_MenuComesBack ==
    /\ [](proc # "crashed")
    /\ (proc = "running" /\ pc # "menu") ~> (pc = "menu" \/ proc = "exited")

\* C20 (as claimed): with no start, stop or cleanup in progress,
\* isServerRunning() is true exactly when a listener is bound and accepting.
C20_TrackedStateAgrees ==
    (proc = "running" /\ pc \notin {"start_wait", "stop_wait", "exit_wait"}
        /\ sigWait = 0)
    => (isServerRunning <=> \E h \in Handles : lstate[h] = "listening")
====
